---- MODULE Spec2Model ----
(***************************************************************************)
(* aiogt.GracefulTimeout driven by an asyncio event loop.                  *)
(*                                                                         *)
(* The timer object (its five slots), the event loop it registers its      *)
(* callback with (clock, timer heap, ready queue, one iteration at a time) *)
(* and the tasks that call the timer's methods between their suspension    *)
(* points.                                                                 *)
(***************************************************************************)
EXTENDS Integers, Sequences, FiniteSets, TLC

\* ------------------------------------------------------------------ bounds
MaxTime == 2        \* loop.time() ranges over 0..MaxTime; deadlines too
NTasks == 2         \* tasks sharing the timer
MaxHandles == 2     \* handles the loop holds before an operation must wait
MaxDelta == 1       \* shift() delays range over -MaxDelta..MaxDelta
MaxTicks == 3       \* loop iterations counted after an enter() that is due

\* ------------------------------------------------------- program constants
\* class _State(IntEnum)
INIT == 0
ENTER == 1
TIMEOUT == 2
EXIT == 3


\* exc_type handed to __aexit__: no exception, asyncio.CancelledError, another
NoExc == "NoExc"
CancelledError == "CancelledError"
OtherError == "OtherError"
ExcTypes == {NoExc, CancelledError, OtherError}

\* The RuntimeErrors the methods raise, told apart by their message
Ok == "ok"
InvalidStateError == "invalid state"
UsageError == "graceful timers should always be checked or waited upon"
ClosedError == "cannot reschedule after exit from context manager"
ExpiredError == "cannot reschedule expired timeout"
NoDeadlineError == "cannot shift timeout if deadline is not scheduled"
AssertionError == "AssertionError"

\* Python's None, for the optional deadline and the optional handle: a value
\* that is no handle and that no deadline reaches
None == 0 - (MaxTime + MaxDelta + 1)

Tasks == 1..NTasks
\* the task that runs the `async with` block; the others wait on the timer or
\* poll it from inside that block
Owner == 1
Handles == 1..MaxHandles
Times == 0..MaxTime
Deltas == (0 - MaxDelta)..MaxDelta
States == {INIT, ENTER, TIMEOUT, EXIT}

VARIABLES
    state,            \* self._state
    deadline,         \* self._deadline (None or a time)
    timeout_handler,  \* self._timeout_handler (None or a handle of the loop)
    event,            \* self._event: whether the asyncio.Event is set
    checked,          \* self._checked
    waiters,          \* self._event's waiters: the tasks suspended in wait()
    now,              \* loop.time()
    timers,           \* the loop's call_at heap: records [id, when]
    ready,            \* the loop's ready queue: callbacks and task steps
    cancelled,        \* handles whose cancel() was called, still in the loop
    todo,             \* entries of ready left to run in this loop iteration
    fresh,            \* handles registered during this loop iteration
    pc,               \* where each task is
    running,          \* the task whose step is running, 0 between callbacks
    polled,           \* whether is_running() was ever called
    last,             \* the most recent call on the timer and its outcome
    ticks,            \* loop iterations begun since enter() returned with a
                      \* deadline the clock had reached, counted until the
                      \* event is set; None when no such enter() is in effect
    first_poll        \* the is_running() the owner calls in the step of that
                      \* enter(): "none", "pending", then what it returned

vars == <<state, deadline, timeout_handler, event, checked, waiters, now,
          timers, ready, cancelled, todo, fresh, pc, running, polled, last,
          ticks, first_poll>>

\* ------------------------------------------------------------- the world
\* The timer and the loop as one record, so that a method is an operator from
\* the record before the call to the record after it.  err is the exception
\* the call raised (Ok when it returned).
World ==
    [state |-> state, deadline |-> deadline, handler |-> timeout_handler,
     event |-> event, checked |-> checked, waiters |-> waiters, now |-> now,
     timers |-> timers, ready |-> ready, cancelled |-> cancelled,
     fresh |-> fresh, err |-> Ok]

Cb(h) == [kind |-> "cb", id |-> h]
Step(t) == [kind |-> "task", id |-> t]

ReadyIds(w) == {w.ready[i].id : i \in {j \in DOMAIN w.ready : w.ready[j].kind = "cb"}}
TimerIds(w) == {r.id : r \in w.timers}
\* handles the loop still holds
Scheduled(w) == ReadyIds(w) \cup TimerIds(w)
\* handles the loop holds and will run
Live(w) == Scheduled(w) \ w.cancelled
FreeIds(w) == Handles \ (Scheduled(w) \cup {w.handler})

\* the identity of the next handle the loop creates
NewHandle(w) ==
    IF FreeIds(w) = {} THEN MaxHandles + 1
    ELSE CHOOSE h \in FreeIds(w) : \A k \in FreeIds(w) : h <= k

Raise(w, e) == [w EXCEPT !.err = e]

\* asyncio.Handle.cancel(): the loop will skip the handle
cancel(w, h) ==
    IF h \in Scheduled(w) THEN [w EXCEPT !.cancelled = @ \cup {h}] ELSE w

\* loop.call_soon(self._on_timeout): runs in the next loop iteration
call_soon(w) ==
    LET h == NewHandle(w)
    IN [w EXCEPT !.ready = Append(@, Cb(h)), !.fresh = @ \cup {h},
                 !.handler = h]

\* loop.call_at(deadline, self._on_timeout)
call_at(w, when) ==
    LET h == NewHandle(w)
    IN [w EXCEPT !.timers = @ \cup {[id |-> h, when |-> when]},
                 !.fresh = @ \cup {h}, !.handler = h]

\* asyncio.Event.set(): wakes every waiter, each as a step in the ready queue
event_set(w) ==
    IF w.event THEN w
    ELSE [w EXCEPT !.event = TRUE,
                   !.ready = @ \o [i \in 1..Len(w.waiters) |-> Step(w.waiters[i])],
                   !.waiters = <<>>]

\* ------------------------------------------------------ GracefulTimeout
\* _reschedule firing a deadline that has passed at once, not by call_soon
_reschedule_sync(w) ==
    IF w.state # ENTER THEN Raise(w, AssertionError)
    ELSE IF w.deadline = None THEN w
    ELSE LET w1 == IF w.handler # None THEN cancel(w, w.handler) ELSE w
         IN IF w1.deadline <= w1.now
            THEN [event_set([w1 EXCEPT !.state = TIMEOUT]) EXCEPT !.handler = None]
            ELSE call_at(w1, w1.deadline)

\* _reschedule handing every deadline to call_at, also one that has passed
_reschedule_call_at(w) ==
    IF w.state # ENTER THEN Raise(w, AssertionError)
    ELSE IF w.deadline = None THEN w
    ELSE LET w1 == IF w.handler # None THEN cancel(w, w.handler) ELSE w
         IN call_at(w1, w1.deadline)

_reschedule(w) ==
    IF w.state # ENTER THEN Raise(w, AssertionError)
    ELSE IF w.deadline = None THEN w
    ELSE LET w1 == IF w.handler # None THEN cancel(w, w.handler) ELSE w
         IN IF w1.deadline <= w1.now THEN call_soon(w1)
            ELSE call_at(w1, w1.deadline)

\* update without the check for an expired timer
update_no_expired_check(w, d) ==
    IF w.state = EXIT THEN Raise(w, ClosedError)
    ELSE LET w1 == IF w.handler # None THEN cancel(w, w.handler) ELSE w
             w2 == [w1 EXCEPT !.deadline = d]
         IN IF w2.state = ENTER THEN _reschedule(w2) ELSE w2

\* update that stores the deadline and leaves the scheduled callback alone
update_keep_callback(w, d) ==
    IF w.state = EXIT THEN Raise(w, ClosedError)
    ELSE IF w.state = TIMEOUT THEN Raise(w, ExpiredError)
    ELSE [w EXCEPT !.deadline = d]

update(w, d) ==
    IF w.state = EXIT THEN Raise(w, ClosedError)
    ELSE IF w.state = TIMEOUT THEN Raise(w, ExpiredError)
    ELSE LET w1 == IF w.handler # None THEN cancel(w, w.handler) ELSE w
             w2 == [w1 EXCEPT !.deadline = d]
         IN IF w2.state # INIT THEN _reschedule(w2) ELSE w2

\* shift taking the delay for the new deadline
shift_absolute(w, delay) ==
    IF w.deadline = None THEN Raise(w, NoDeadlineError)
    ELSE update(w, delay)

\* shift without the check for a missing deadline
shift_no_none_check(w, delay) ==
    update(w, w.deadline + delay)

shift(w, delay) ==
    IF w.deadline = None THEN Raise(w, NoDeadlineError)
    ELSE update(w, w.deadline + delay)

\* _reject dropping the handle without cancelling it
_reject_no_cancel(w) ==
    [w EXCEPT !.handler = None]

_reject(w) ==
    IF w.handler # None
    THEN [cancel(w, w.handler) EXCEPT !.handler = None]
    ELSE w

\* _do_exit without the check that the timer was observed
_do_exit_unchecked(w, exc_type) ==
    LET w1 == IF exc_type = CancelledError /\ w.state = TIMEOUT
              THEN [w EXCEPT !.handler = None] ELSE w
    IN _reject([w1 EXCEPT !.state = EXIT])

\* _do_exit that closes the timer without calling _reject
_do_exit_no_reject(w, exc_type) ==
    LET w1 == IF exc_type = CancelledError /\ w.state = TIMEOUT
              THEN [w EXCEPT !.handler = None] ELSE w
    IN IF ~w1.checked THEN Raise(w1, UsageError)
       ELSE [w1 EXCEPT !.state = EXIT]

_do_exit(w, exc_type) ==
    LET w1 == IF exc_type = CancelledError /\ w.state = TIMEOUT
              THEN [w EXCEPT !.handler = None] ELSE w
    IN IF ~w1.checked THEN Raise(w1, UsageError)
       ELSE _reject([w1 EXCEPT !.state = EXIT])

\* _do_enter without the check of the state
_do_enter_unchecked(w) ==
    _reschedule([w EXCEPT !.state = ENTER])

_do_enter(w) ==
    IF w.state # INIT THEN Raise(w, InvalidStateError)
    ELSE _reschedule([w EXCEPT !.state = ENTER])

\* _on_timeout that forgets to set the event
_on_timeout_no_set(w) ==
    [w EXCEPT !.state = TIMEOUT, !.handler = None]

\* _on_timeout that keeps the reference to its handle
_on_timeout_keep_handler(w) ==
    event_set([w EXCEPT !.state = TIMEOUT])

_on_timeout(w) ==
    [event_set([w EXCEPT !.state = TIMEOUT]) EXCEPT !.handler = None]

\* what is_running() returns once its heartbeat has passed
is_running(w) == ~(w.state # TIMEOUT)

\* GracefulTimeout(deadline, loop)
\* wait() that, finding the deadline passed, expires the timer itself
wait_expiring(w) ==
    IF w.state = ENTER /\ w.deadline # None /\ w.deadline <= w.now
    THEN [w EXCEPT !.checked = TRUE, !.state = TIMEOUT, !.event = TRUE]
    ELSE [w EXCEPT !.checked = TRUE]

\* wait(), up to awaiting the event
wait(w) == [w EXCEPT !.checked = TRUE]

__init__(w, d) ==
    IF d = None THEN [w EXCEPT !.deadline = None] ELSE update(w, d)

\* ------------------------------------------------------------ the tasks
\* The record of a call: what was called; the timer's state, deadline and
\* event when the call (for is_running and a woken wait: its return) happened;
\* the exc_type given to __aexit__; the error raised; the value returned (for
\* wait: whether it returned without suspending); and whether the timer had
\* been polled or waited on before.
Last(op, exc, err, ret) ==
    [op |-> op, pre |-> state, dl |-> deadline, ev |-> event, exc |-> exc,
     err |-> err, ret |-> ret, polled |-> polled, checked |-> checked]

\* the timer and the loop after a call
Apply(w) ==
    /\ state' = w.state
    /\ deadline' = w.deadline
    /\ timeout_handler' = w.handler
    /\ event' = w.event
    /\ checked' = w.checked
    /\ waiters' = w.waiters
    /\ now' = w.now
    /\ timers' = w.timers
    /\ ready' = w.ready
    /\ cancelled' = w.cancelled
    /\ fresh' = w.fresh

\* the call did not need more handles than the loop is bounded to hold
Fits(w) == w.handler \in Handles \cup {None}

\* async with g: (__aenter__)
Enter(t) ==
    /\ t = Owner
    /\ running = t
    /\ LET w == _do_enter(World)
       IN /\ Fits(w)
          /\ Apply(w)
          /\ last' = Last("enter", NoExc, w.err, TRUE)
    /\ UNCHANGED <<todo, pc, running, polled>>
    /\ ticks' = IF /\ last'.err = Ok
                       /\ deadline # None
                       /\ deadline <= now
                    THEN 0 ELSE ticks
    /\ UNCHANGED first_poll

\* g.update(d)
Update(t, d) ==
    /\ t = Owner
    /\ running = t
    /\ LET w == update(World, d)
       IN /\ Fits(w)
          /\ Apply(w)
          /\ last' = Last("update", NoExc, w.err, TRUE)
    /\ UNCHANGED <<todo, pc, running, polled>>
    /\ ticks' = IF last'.err = Ok THEN None ELSE ticks
    /\ UNCHANGED first_poll

\* g.shift(delay)
Shift(t, delay) ==
    /\ t = Owner
    /\ running = t
    /\ deadline # None => deadline + delay \in Times
    /\ LET w == shift(World, delay)
       IN /\ Fits(w)
          /\ Apply(w)
          /\ last' = Last("shift", NoExc, w.err, TRUE)
    /\ UNCHANGED <<todo, pc, running, polled>>
    /\ ticks' = IF last'.err = Ok THEN None ELSE ticks
    /\ UNCHANGED first_poll

\* leaving the async with block (__aexit__), exc_type the exception in flight
Exit(t, exc_type) ==
    /\ t = Owner
    /\ running = t
    /\ LET w == _do_exit(World, exc_type)
       IN /\ Apply(w)
          /\ last' = Last("exit", exc_type, w.err, TRUE)
    /\ UNCHANGED <<todo, pc, running, polled>>
    /\ ticks' = IF last'.err = Ok THEN None ELSE ticks
    /\ UNCHANGED first_poll

\* await g.wait(): returns at once when the event is set, else suspends
WaitCall(t) ==
    /\ running = t
    /\ LET w == wait(World)
       IN IF w.event
          THEN /\ Apply(w)
               /\ last' = Last("wait", NoExc, Ok, TRUE)
               /\ UNCHANGED <<pc, running>>
          ELSE /\ Apply([w EXCEPT !.waiters = Append(@, t)])
               /\ pc' = [pc EXCEPT ![t] = "waiting"]
               /\ running' = 0
               /\ last' = Last("wait", NoExc, Ok, FALSE)
    /\ UNCHANGED <<todo, polled, ticks, first_poll>>

\* await g.is_running(), up to the heartbeat's yield; loop tells whether the
\* call is the condition of `while await g.is_running():`
IsRunningCall(t, loop) ==
    /\ running = t
    /\ pc' = [pc EXCEPT ![t] = IF loop THEN "loop" ELSE "heartbeat"]
    /\ ready' = Append(ready, Step(t))
    /\ running' = 0
    /\ polled' = TRUE
    /\ UNCHANGED <<state, deadline, timeout_handler, event, checked, waiters,
                   now, timers, cancelled, todo, fresh, last>>
    /\ first_poll' = IF t = Owner /\ ticks = 0 /\ first_poll = "none"
                         THEN "pending" ELSE first_poll
    /\ UNCHANGED ticks

\* any other await of the guarded block (await r.text()): one pass of the loop
Yield(t) ==
    /\ t = Owner
    /\ running = t
    /\ pc' = [pc EXCEPT ![t] = "start"]
    /\ ready' = Append(ready, Step(t))
    /\ running' = 0
    /\ UNCHANGED <<state, deadline, timeout_handler, event, checked, waiters,
                   now, timers, cancelled, todo, fresh, polled, last>>
    /\ UNCHANGED <<ticks, first_poll>>

\* the task ends
Finish(t) ==
    /\ running = t
    /\ pc' = [pc EXCEPT ![t] = "done"]
    /\ running' = 0
    /\ UNCHANGED <<state, deadline, timeout_handler, event, checked, waiters,
                   now, timers, ready, cancelled, todo, fresh, polled, last>>
    /\ UNCHANGED <<ticks, first_poll>>

\* ------------------------------------------------------------- the loop
\* the loop runs the step of task t, which is at the head of the ready queue
Resumes(t, at) ==
    /\ running = 0
    /\ todo > 0
    /\ Head(ready) = Step(t)
    /\ pc[t] = at

StartTask(t) ==
    /\ Resumes(t, "start")
    /\ ready' = Tail(ready)
    /\ todo' = todo - 1
    /\ pc' = [pc EXCEPT ![t] = "run"]
    /\ running' = t
    /\ UNCHANGED <<state, deadline, timeout_handler, event, checked, waiters,
                   now, timers, cancelled, fresh, polled, last>>
    /\ UNCHANGED <<ticks, first_poll>>

\* is_running() after its heartbeat: returns
IsRunningReturn(t) ==
    /\ Resumes(t, "heartbeat")
    /\ ready' = Tail(ready)
    /\ todo' = todo - 1
    /\ pc' = [pc EXCEPT ![t] = "run"]
    /\ running' = t
    /\ last' = Last("is_running", NoExc, Ok, is_running(World))
    /\ UNCHANGED <<state, deadline, timeout_handler, event, checked, waiters,
                   now, timers, cancelled, fresh, polled>>
    /\ first_poll' = IF t = Owner /\ first_poll = "pending"
                         THEN (IF is_running(World) THEN "true" ELSE "false")
                         ELSE first_poll
    /\ UNCHANGED ticks

\* `while await g.is_running():` whose condition held: the body runs and the
\* condition is awaited again
LoopContinue(t) ==
    /\ Resumes(t, "loop")
    /\ is_running(World)
    /\ ready' = Append(Tail(ready), Step(t))
    /\ todo' = todo - 1
    /\ last' = Last("loop", NoExc, Ok, TRUE)
    /\ UNCHANGED <<state, deadline, timeout_handler, event, checked, waiters,
                   now, timers, cancelled, fresh, pc, running, polled>>
    /\ first_poll' = IF t = Owner /\ first_poll = "pending"
                         THEN (IF is_running(World) THEN "true" ELSE "false")
                         ELSE first_poll
    /\ UNCHANGED ticks

\* `while await g.is_running():` whose condition failed: the loop is left
LoopExit(t) ==
    /\ Resumes(t, "loop")
    /\ ~is_running(World)
    /\ ready' = Tail(ready)
    /\ todo' = todo - 1
    /\ pc' = [pc EXCEPT ![t] = "run"]
    /\ running' = t
    /\ last' = Last("loop", NoExc, Ok, FALSE)
    /\ UNCHANGED <<state, deadline, timeout_handler, event, checked, waiters,
                   now, timers, cancelled, fresh, polled>>
    /\ first_poll' = IF t = Owner /\ first_poll = "pending"
                         THEN (IF is_running(World) THEN "true" ELSE "false")
                         ELSE first_poll
    /\ UNCHANGED ticks

\* wait() of a task the event woke: returns
WaitReturn(t) ==
    /\ Resumes(t, "waiting")
    /\ ready' = Tail(ready)
    /\ todo' = todo - 1
    /\ pc' = [pc EXCEPT ![t] = "run"]
    /\ running' = t
    /\ last' = Last("wait_return", NoExc, Ok, TRUE)
    /\ UNCHANGED <<state, deadline, timeout_handler, event, checked, waiters,
                   now, timers, cancelled, fresh, polled>>
    /\ UNCHANGED <<ticks, first_poll>>

\* the loop's clock
AdvanceClock ==
    /\ running = 0
    /\ now < MaxTime
    /\ now' = now + 1
    /\ UNCHANGED <<state, deadline, timeout_handler, event, checked, waiters,
                   timers, ready, cancelled, todo, fresh, pc, running, polled,
                   last>>
    /\ UNCHANGED <<ticks, first_poll>>

RECURSIVE ByWhen(_)
\* the handles of a set of timers, earliest first
ByWhen(rs) ==
    IF rs = {} THEN <<>>
    ELSE LET r == CHOOSE x \in rs :
                    \A y \in rs : x.when < y.when \/ (x.when = y.when /\ x.id <= y.id)
         IN <<Cb(r.id)>> \o ByWhen(rs \ {r})

\* a loop iteration begins: the timers that are due join the ready queue, and
\* what is in the queue now is what this iteration runs
StartTick ==
    /\ running = 0
    /\ todo = 0
    /\ LET dead == {r \in timers : r.id \in cancelled}
           due == {r \in timers \ dead : r.when <= now}
       IN /\ ready \o ByWhen(due) # <<>>
          /\ ready' = ready \o ByWhen(due)
          /\ timers' = timers \ (dead \cup due)
          /\ cancelled' = cancelled \ {r.id : r \in dead}
    /\ todo' = Len(ready')
    /\ fresh' = {}
    /\ UNCHANGED <<state, deadline, timeout_handler, event, checked, waiters,
                   now, pc, running, polled, last>>
    /\ ticks' = IF ticks # None /\ ~event /\ ticks < MaxTicks
                    THEN ticks + 1 ELSE ticks
    /\ UNCHANGED first_poll

\* the loop runs the handle at the head of the ready queue: _on_timeout
Fire ==
    /\ running = 0
    /\ todo > 0
    /\ Head(ready).kind = "cb"
    /\ Head(ready).id \notin cancelled
    /\ Apply(_on_timeout([World EXCEPT !.ready = Tail(@)]))
    /\ todo' = todo - 1
    /\ UNCHANGED <<pc, running, polled, last>>
    /\ UNCHANGED <<ticks, first_poll>>

\* the loop drops a cancelled handle instead of running it
SkipCancelled ==
    /\ running = 0
    /\ todo > 0
    /\ Head(ready).kind = "cb"
    /\ Head(ready).id \in cancelled
    /\ ready' = Tail(ready)
    /\ cancelled' = cancelled \ {Head(ready).id}
    /\ todo' = todo - 1
    /\ UNCHANGED <<state, deadline, timeout_handler, event, checked, waiters,
                   now, timers, fresh, pc, running, polled, last>>
    /\ UNCHANGED <<ticks, first_poll>>

\* ------------------------------------------------------ the specification
\* graceful_timeout_at(d): a timer in INIT, the tasks about to start
Init ==
    /\ \E d \in Times \cup {None} :
         LET w == __init__([state |-> INIT, deadline |-> None, handler |-> None,
                            event |-> FALSE, checked |-> FALSE, waiters |-> <<>>,
                            now |-> 0, timers |-> {},
                            ready |-> [t \in Tasks |-> Step(t)],
                            cancelled |-> {}, fresh |-> {}, err |-> Ok], d)
         IN /\ state = w.state
            /\ deadline = w.deadline
            /\ timeout_handler = w.handler
            /\ event = w.event
            /\ checked = w.checked
            /\ waiters = w.waiters
            /\ now = w.now
            /\ timers = w.timers
            /\ ready = w.ready
            /\ cancelled = w.cancelled
            /\ fresh = w.fresh
    /\ todo = 0
    /\ pc = [t \in Tasks |-> "start"]
    /\ running = 0
    /\ polled = FALSE
    /\ last = [op |-> "none", pre |-> INIT, dl |-> deadline, ev |-> FALSE,
               exc |-> NoExc, err |-> Ok, ret |-> TRUE, polled |-> FALSE,
               checked |-> FALSE]
    /\ ticks = None
    /\ first_poll = "none"

Next ==
    \/ Enter(Owner)
    \/ \E d \in Times : Update(Owner, d)
    \/ \E delay \in Deltas : Shift(Owner, delay)
    \/ \E e \in ExcTypes : Exit(Owner, e)
    \/ \E t \in Tasks : WaitCall(t)
    \/ \E t \in Tasks, loop \in BOOLEAN : IsRunningCall(t, loop)
    \/ Yield(Owner)
    \/ \E t \in Tasks : Finish(t)
    \/ \E t \in Tasks : StartTask(t)
    \/ \E t \in Tasks : IsRunningReturn(t)
    \/ \E t \in Tasks : LoopContinue(t)
    \/ \E t \in Tasks : LoopExit(t)
    \/ \E t \in Tasks : WaitReturn(t)
    \/ AdvanceClock
    \/ StartTick
    \/ Fire
    \/ SkipCancelled

Spec == Init /\ [][Next]_vars

\* ------------------------------------------------------------ the claims
\* the owner calls enter(), update() or shift()
SetsDeadline ==
    \/ Enter(Owner)
    \/ \E d \in Times : Update(Owner, d)
    \/ \E delay \in Deltas : Shift(Owner, delay)

\* the steps of the woken tasks, in the order they were suspended
Woken(ws) == [i \in 1..Len(ws) |-> Step(ws[i])]

\* C1: is_running() returns true exactly when the timer's state is not
\* TIMEOUT at the moment it returns (after its heartbeat), false exactly when
\* the timer has fired.
C1_IsRunningIffNotExpired ==
    last.op = "is_running" => (last.ret = (last.pre # TIMEOUT))

\* C2: on an entered timer with a deadline, the condition of
\* `while await g.is_running():` holds as long as the timer has not fired and
\* fails the first time it is evaluated after the firing, so the loop is left
\* then; and a wait() called once the event is set returns without suspending.
C2_LoopRunsUntilFired ==
    /\ (last.op = "loop" /\ last.dl # None /\ last.pre \in {ENTER, TIMEOUT})
          => (last.ret = (last.pre # TIMEOUT))
    /\ (last.op = "wait" /\ last.ev) => last.ret

\* C3: __aexit__ on an entered timer that was polled with is_running() and
\* never waited on returns without raising, fired or not.
C3_ExitAfterPollSucceeds ==
    (last.op = "exit" /\ last.pre \in {ENTER, TIMEOUT} /\ last.polled
        /\ ~last.checked)
      => last.err = Ok

\* C4: __aexit__ with no exception in flight, on an entered timer (ENTER or
\* TIMEOUT) that was never waited on and never polled, raises the
\* "should always be checked or waited upon" RuntimeError.
C4_UnobservedExitFails ==
    (last.op = "exit" /\ last.pre \in {ENTER, TIMEOUT} /\ last.exc = NoExc
        /\ ~last.polled /\ ~last.checked)
      => last.err = UsageError

\* C4's case: a clean exit of a timer that fired and that nobody observed
C4_Witness ==
    /\ last.op = "exit"
    /\ last.pre = TIMEOUT
    /\ last.exc = NoExc
    /\ ~last.polled
    /\ ~last.checked
    /\ last.err = UsageError

\* C5: __aexit__ called with an exception in flight (CancelledError or any
\* other) never raises the usage RuntimeError, observed or not.
C5_NoUsageErrorWhileUnwinding ==
    (last.op = "exit" /\ last.exc # NoExc) => last.err # UsageError

\* C6: enter(), update() and shift() never fire the timer themselves: they
\* leave the state and the event as they were (a successful enter() leaves the
\* state ENTER), whatever the deadline; and the step that makes the state
\* TIMEOUT is the loop running a handle that was registered in an earlier
\* loop iteration.
C6_NeverFiresSynchronously ==
    [][/\ SetsDeadline =>
            /\ state' # TIMEOUT \/ state = TIMEOUT
            /\ event' = event
            /\ (last'.op = "enter" /\ last'.err = Ok) => state' = ENTER
            /\ (last'.op # "enter" /\ last'.err = Ok) => state' = state
       /\ (state # TIMEOUT /\ state' = TIMEOUT) =>
            /\ running = 0
            /\ todo > 0
            /\ Head(ready).kind = "cb"
            /\ Head(ready).id \notin fresh]_vars

\* C6's case: enter() has returned with a deadline the clock had reached, the
\* callback sits in the ready queue for the next iteration, the state is ENTER
C6_Witness ==
    /\ last.op = "enter"
    /\ last.err = Ok
    /\ deadline # None
    /\ deadline <= now
    /\ state = ENTER
    /\ timeout_handler \in fresh
    /\ timeout_handler \in ReadyIds(World)

\* C7: while the deadline is None (it was never set, then) the timer is never
\* in TIMEOUT and its event is never set; inside the scope every is_running()
\* (as a call or as a loop condition) returns true; and no wait() returns.
C7_NullDeadlineNeverExpires ==
    deadline = None =>
        /\ state # TIMEOUT
        /\ ~event
        /\ (last.op \in {"is_running", "loop"} /\ last.pre = ENTER) => last.ret
        /\ last.op # "wait_return"
        /\ last.op = "wait" => ~last.ret

\* C8: wait() is a broadcast.  A wait() returns only when the event is set: a
\* woken one finds it set, and a call returns without suspending exactly when
\* it is already set.  A task suspended in wait() is among the event's waiters
\* until the event is set, and nobody is left waiting after.  The step that
\* fires the timer sets the event and moves every waiter, together and in
\* order, to the end of the ready queue.
C8_WaitIsBroadcast ==
    /\ [](/\ last.op = "wait_return" => last.ev
          /\ last.op = "wait" => (last.ret = last.ev)
          /\ event => waiters = <<>>
          /\ \A t \in Tasks :
                (pc[t] = "waiting" /\ ~event) =>
                    \E i \in 1..Len(waiters) : waiters[i] = t)
    /\ [][(state # TIMEOUT /\ state' = TIMEOUT) =>
            /\ event'
            /\ waiters' = <<>>
            /\ Len(ready') >= Len(waiters)
            /\ SubSeq(ready', Len(ready') - Len(waiters) + 1, Len(ready'))
                 = Woken(waiters)]_vars

\* C8's case: the timer has fired with two tasks suspended in wait(), and both
\* are in the ready queue, released by that firing
C8_Witness ==
    /\ event
    /\ \E t1, t2 \in Tasks :
          /\ t1 # t2
          /\ pc[t1] = "waiting"
          /\ pc[t2] = "waiting"
          /\ \E i, j \in 1..Len(ready) : ready[i] = Step(t1) /\ ready[j] = Step(t2)

\* C9: update() on a timer in TIMEOUT raises "cannot reschedule expired
\* timeout", on a timer in EXIT "cannot reschedule after exit from context
\* manager", and either way leaves the deadline, the state, the handle, the
\* event and what the loop holds as they were.
C9_UpdateRejected ==
    [][((\E d \in Times : Update(Owner, d)) /\ state \in {TIMEOUT, EXIT}) =>
            /\ last'.op = "update"
            /\ last'.err = IF state = TIMEOUT THEN ExpiredError ELSE ClosedError
            /\ UNCHANGED <<deadline, state, timeout_handler, event, timers,
                           ready, cancelled>>]_vars

\* C9's case: update() was refused on a timer that fired and was then exited
C9_Witness ==
    /\ last.op = "update"
    /\ last.pre = EXIT
    /\ last.err = ClosedError
    /\ event
    /\ state = EXIT

\* C10: with a deadline d set, shift(delay) leaves the timer and the loop
\* exactly as update(d + delay) does, for every delay and in every state of
\* the timer: the same deadline, the same handle registered for the same time
\* (or for the next iteration), the same error.
C10_ShiftIsUpdate ==
    deadline # None =>
        \A delay \in Deltas :
            shift(World, delay) = update(World, deadline + delay)

\* C10's case: a shift() by a delay other than 0 has rescheduled an entered
\* timer
C10_Witness ==
    /\ last.op = "shift"
    /\ last.err = Ok
    /\ last.pre = ENTER
    /\ last.dl # None
    /\ deadline # last.dl
    /\ timeout_handler # None
    /\ timeout_handler \in Live(World)

\* C11: enter() on a timer that is not in INIT (ENTER, TIMEOUT or EXIT) raises
\* "invalid state" and leaves the state, the deadline, the handle and what the
\* loop holds as they were; so the state becomes ENTER only from INIT, and
\* never again once it has left INIT.
C11_EnterOnlyFromInit ==
    [][/\ (Enter(Owner) /\ state # INIT) =>
            /\ last'.op = "enter"
            /\ last'.err = InvalidStateError
            /\ UNCHANGED <<state, deadline, timeout_handler, event, timers,
                           ready, cancelled>>
       /\ (Enter(Owner) /\ state = INIT) => last'.err = Ok /\ state' = ENTER
       /\ (state # ENTER /\ state' = ENTER) => state = INIT
       /\ state # INIT => state' # INIT]_vars

\* C11's case: enter() was refused on a timer that had fired
C11_Witness ==
    /\ last.op = "enter"
    /\ last.pre = TIMEOUT
    /\ last.err = InvalidStateError
    /\ state = TIMEOUT

\* C12: shift() on a timer whose deadline is None raises "cannot shift timeout
\* if deadline is not scheduled" in every state (INIT, ENTER, EXIT) and leaves
\* the deadline, the state, the handle and what the loop holds as they were.
C12_ShiftWithoutDeadline ==
    [][((\E delay \in Deltas : Shift(Owner, delay)) /\ deadline = None) =>
            /\ last'.op = "shift"
            /\ last'.err = NoDeadlineError
            /\ UNCHANGED <<state, deadline, timeout_handler, event, timers,
                           ready, cancelled>>]_vars

\* C12's case: shift() was refused inside the scope of a timer with no
\* deadline, and nothing is scheduled
C12_Witness ==
    /\ last.op = "shift"
    /\ last.pre = ENTER
    /\ last.dl = None
    /\ last.err = NoDeadlineError
    /\ deadline = None
    /\ timeout_handler = None
    /\ Scheduled(World) = {}

C14_ClosedIsTerminal ==
    [][state = EXIT =>
          UNCHANGED <<state, deadline, timeout_handler, event>>]_vars

\* C14's case: the scope was exited while the callback was still in the
\* loop, which holds it cancelled, and a call was made on the closed timer
C14_Witness ==
    /\ state = EXIT
    /\ cancelled # {}
    /\ last.pre = EXIT
    /\ last.op \in {"enter", "update", "shift", "exit"}

\* C15: the event is set at most once and exactly in the step that takes the
\* state from ENTER to TIMEOUT: the event changes only in such a step, the
\* state becomes TIMEOUT only from ENTER and with the event being set, the
\* loop runs _on_timeout only while the event is not set, and from that step
\* on (while the state is TIMEOUT) the handle is None and the loop holds no
\* live callback.
C15_FiresOnce ==
    /\ [](state = TIMEOUT =>
            event /\ timeout_handler = None /\ Live(World) = {})
    /\ [][/\ event' # event => (~event /\ state = ENTER /\ state' = TIMEOUT)
          /\ (state # TIMEOUT /\ state' = TIMEOUT) =>
                (state = ENTER /\ ~event /\ event' /\ timeout_handler' = None)
          /\ Fire => ~event]_vars

\* C15's case: the deadline was moved by update() inside the scope, and the
\* timer has then fired
C15_Witness ==
    /\ state = TIMEOUT
    /\ event
    /\ timeout_handler = None
    /\ last.op = "update"
    /\ last.pre = ENTER
    /\ last.err = Ok
    /\ last.dl # deadline

\* C16: the loop holds at most one callback that will run, and it is the one
\* the timer refers to, registered for the timer's current deadline: in the
\* call_at heap for exactly that deadline, in the ready queue only when the
\* clock has reached it.  An entered timer with a deadline always has that
\* callback.  So a callback registered for a deadline that update() or shift()
\* replaced never runs, and when the timer fires the clock has reached its
\* current deadline.
C16_OneCallbackForCurrentDeadline ==
    /\ Cardinality(Live(World)) <= 1
    /\ Live(World) # {} =>
          /\ Live(World) = {timeout_handler}
          /\ state = ENTER
          /\ deadline # None
    /\ \A r \in timers : r.id \in Live(World) => r.when = deadline
    /\ \A h \in ReadyIds(World) \cap Live(World) : deadline <= now
    /\ (state = ENTER /\ deadline # None) => Live(World) = {timeout_handler}

\* C16's case: update() has brought the deadline of an entered timer nearer;
\* the callback for the old deadline is cancelled in the loop and the one for
\* the new deadline is the only live one
C16_Witness ==
    /\ last.op = "update"
    /\ last.pre = ENTER
    /\ last.err = Ok
    /\ last.dl # None
    /\ deadline < last.dl
    /\ state = ENTER
    /\ cancelled # {}
    /\ Live(World) = {timeout_handler}

\* the callbacks the loop holds and the ones among them that are cancelled
Callbacks == <<timers, ReadyIds(World), cancelled>>

\* a task calls wait() or is_running(), or returns from one of them
Observes ==
    \E t \in Tasks :
        \/ WaitCall(t)
        \/ WaitReturn(t)
        \/ \E loop \in BOOLEAN : IsRunningCall(t, loop)
        \/ IsRunningReturn(t)
        \/ LoopContinue(t)
        \/ LoopExit(t)

\* C17: after __aexit__ was called on an entered timer (ENTER or TIMEOUT),
\* whether it returned or raised and whatever exception was in flight, the
\* state is EXIT, the handle is None and the loop holds no callback that
\* will run.
C17_ExitAlwaysReleases ==
    (last.op = "exit" /\ last.pre \in {ENTER, TIMEOUT}) =>
        /\ state = EXIT
        /\ timeout_handler = None
        /\ Live(World) = {}

\* C18: the handle is not None only when the state is ENTER and the deadline
\* is not None; in INIT (after construction with a deadline, after update())
\* the loop holds no callback at all, and in TIMEOUT and EXIT the handle is
\* None.
C18_HandleOnlyWhileActive ==
    /\ timeout_handler # None => (state = ENTER /\ deadline # None)
    /\ state = INIT => Scheduled(World) = {}

\* C18's case: update() has changed the deadline of a timer that is still in
\* INIT, and nothing is scheduled
C18_Witness ==
    /\ state = INIT
    /\ last.op = "update"
    /\ last.err = Ok
    /\ deadline # None
    /\ deadline # last.dl
    /\ timeout_handler = None
    /\ Scheduled(World) = {}

\* C19: __aexit__ on a timer still in INIT raises and leaves it in INIT,
\* whether or not wait() was called on it before.
C19_NoExitFromInit ==
    (last.op = "exit" /\ last.pre = INIT) =>
        /\ last.err # Ok
        /\ state # EXIT

\* C20: a call of wait() or is_running(), and its return, leaves the state,
\* the deadline, the handle, the event and the loop's callbacks as they were;
\* the state becomes TIMEOUT only in the step in which the loop runs
\* _on_timeout.
C20_ObserversOnlyObserve ==
    [][/\ Observes =>
            /\ UNCHANGED <<state, deadline, timeout_handler, event>>
            /\ Callbacks' = Callbacks
       /\ (state # TIMEOUT /\ state' = TIMEOUT) => Fire]_vars

\* C20's case: inside the scope one task is suspended in wait(), another has
\* had is_running() return, and the timer is still ENTER with its callback
\* scheduled
C20_Witness ==
    /\ state = ENTER
    /\ ~event
    /\ checked
    /\ polled
    /\ last.op = "is_running"
    /\ \E t \in Tasks : pc[t] = "waiting"
    /\ timeout_handler \in Live(World)

====
